---- MODULE Spec2Model ----
(***************************************************************************)
(* Carbon footprint tracker (src/app.py): the emission calculator, the     *)
(* carbon_footprint entry table, the user_streaks table and the handlers   *)
(* that write them.                                                        *)
(*                                                                         *)
(* Representation.                                                         *)
(*  - A table is the sequence of its rows in rowid order (AUTOINCREMENT,   *)
(*    no DELETE anywhere in the program).                                  *)
(*  - A date is its day ordinal; SQL NULL / Python None for a date is      *)
(*    NoDate.  (entry_date - last_entry_date).days is the difference of    *)
(*    the ordinals.                                                        *)
(*  - Carbon masses are exact multiples of 1/Scale kg, so every factor of  *)
(*    the source is an integer here (0.4 kg is 40000 units).               *)
(*  - The input dict `data` is a function from the keys it holds to their  *)
(*    values; data.get(k, 0) is Get(data, k, 0).                           *)
(*  - run_query swallows every database error and returns None; whether a  *)
(*    query of a handler fails is an input of the handler's action.        *)
(***************************************************************************)
EXTENDS Integers, Sequences, FiniteSets, TLC

VARIABLES
    users,             \* table users: rows [username, email], id = position
    user_streaks,      \* table user_streaks
    carbon_footprint,  \* table carbon_footprint
    call,              \* the last handler call: its arguments, query outcomes,
                       \* result and, for a save, the user's streak rows before it
    calls,             \* number of save_carbon_footprint calls made, and of
                       \* queries that failed in any handler
    sessions           \* per browser session: where its save_carbon_footprint
                       \* stands between its queries, and its local variables

vars == <<users, user_streaks, carbon_footprint, call, calls, sessions>>

----------------------------------------------------------------------------
(* Bounds of the model *)

MaxDay == 5
MaxSaves == 3
MaxFormSaves == 2
MaxFaultSaves == 3
MaxStepSaves == 2
MaxFaults == 1
MaxQty == 1
MaxStatsSaves == 3
MaxOpSaves == 2

NoDate == 0
Today == 2
EntryDates == 1..MaxDay

----------------------------------------------------------------------------
(* Emission factors, in units of 1/Scale kg *)

Scale == 10 ^ 5
ElectricityFactor == 40000
NaturalGasFactor == 530000
WaterFactor == 20
CarEfficiency == 25
GasolineFactor == 888700
TransitFactor == 17000
ShortFlightFactor == 50000000
LongFlightFactor == 160000000
MeatFactor == 300000
DairyFactor == 70000
VegFactor == 20000

RawFields == <<"electricity_kwh", "natural_gas_therms", "water_gallons",
               "car_miles", "public_transit_miles", "flights_short_haul",
               "flights_long_haul", "meat_servings", "dairy_servings",
               "veg_servings">>

RawFieldSet == {RawFields[i] : i \in 1..Len(RawFields)}

(* dict.get(key, default) *)
Get(data, key, default) == IF key \in DOMAIN data THEN data[key] ELSE default

(* Python truthiness of data.get(key): absent (None) and 0 are false *)
Truthy(data, key) == key \in DOMAIN data /\ data[key] # 0

calculate_electricity_carbon(kwh) == kwh * ElectricityFactor

calculate_natural_gas_carbon(therms) == therms * NaturalGasFactor

calculate_water_carbon(gallons) == gallons * WaterFactor

(* gallons = miles / efficiency; gallons * 8.887, computed exactly *)
calculate_car_carbon(miles) == (miles * GasolineFactor) \div CarEfficiency

calculate_public_transit_carbon(miles) == miles * TransitFactor

calculate_flight_carbon(short_flights, long_flights) ==
    (short_flights * ShortFlightFactor) + (long_flights * LongFlightFactor)

calculate_food_carbon(meat_servings, dairy_servings, veg_servings) ==
    LET meat_carbon == meat_servings * MeatFactor
        dairy_carbon == dairy_servings * DairyFactor
        veg_carbon == veg_servings * VegFactor
    IN  meat_carbon + dairy_carbon + veg_carbon

(* Variant: flights are counted only when both counts are given *)
calculate_total_carbon_FlightsNeedBoth(data) ==
    LET t0 == 0
        t1 == IF Truthy(data, "electricity_kwh")
              THEN t0 + calculate_electricity_carbon(data["electricity_kwh"])
              ELSE t0
        t2 == IF Truthy(data, "natural_gas_therms")
              THEN t1 + calculate_natural_gas_carbon(data["natural_gas_therms"])
              ELSE t1
        t3 == IF Truthy(data, "water_gallons")
              THEN t2 + calculate_water_carbon(data["water_gallons"])
              ELSE t2
        t4 == IF Truthy(data, "car_miles")
              THEN t3 + calculate_car_carbon(data["car_miles"])
              ELSE t3
        t5 == IF Truthy(data, "public_transit_miles")
              THEN t4 + calculate_public_transit_carbon(data["public_transit_miles"])
              ELSE t4
        t6 == IF Truthy(data, "flights_short_haul") /\ Truthy(data, "flights_long_haul")
              THEN t5 + calculate_flight_carbon(Get(data, "flights_short_haul", 0),
                                                Get(data, "flights_long_haul", 0))
              ELSE t5
        t7 == IF \/ Truthy(data, "meat_servings")
                 \/ Truthy(data, "dairy_servings")
                 \/ Truthy(data, "veg_servings")
              THEN t6 + calculate_food_carbon(Get(data, "meat_servings", 0),
                                              Get(data, "dairy_servings", 0),
                                              Get(data, "veg_servings", 0))
              ELSE t6
    IN  t7

calculate_total_carbon(data) ==
    LET t0 == 0
        t1 == IF Truthy(data, "electricity_kwh")
              THEN t0 + calculate_electricity_carbon(data["electricity_kwh"])
              ELSE t0
        t2 == IF Truthy(data, "natural_gas_therms")
              THEN t1 + calculate_natural_gas_carbon(data["natural_gas_therms"])
              ELSE t1
        t3 == IF Truthy(data, "water_gallons")
              THEN t2 + calculate_water_carbon(data["water_gallons"])
              ELSE t2
        t4 == IF Truthy(data, "car_miles")
              THEN t3 + calculate_car_carbon(data["car_miles"])
              ELSE t3
        t5 == IF Truthy(data, "public_transit_miles")
              THEN t4 + calculate_public_transit_carbon(data["public_transit_miles"])
              ELSE t4
        t6 == IF Truthy(data, "flights_short_haul") \/ Truthy(data, "flights_long_haul")
              THEN t5 + calculate_flight_carbon(Get(data, "flights_short_haul", 0),
                                                Get(data, "flights_long_haul", 0))
              ELSE t5
        t7 == IF \/ Truthy(data, "meat_servings")
                 \/ Truthy(data, "dairy_servings")
                 \/ Truthy(data, "veg_servings")
              THEN t6 + calculate_food_carbon(Get(data, "meat_servings", 0),
                                              Get(data, "dairy_servings", 0),
                                              Get(data, "veg_servings", 0))
              ELSE t6
    IN  t7

----------------------------------------------------------------------------
(* run_query: a SELECT returns the matching rows, or None when the query  *)
(* fails; None and the empty list are both falsy where the callers test    *)
(* the result, so both are the empty sequence here.  A write is applied    *)
(* and committed, or fails and changes nothing.                            *)

SelectRows(rows, ok) == IF ok THEN rows ELSE << >>

(* Variant: INSERT OR REPLACE keyed on user_id *)
InsertRow_Replace(table, row, ok) ==
    LET Others(r) == r.user_id # row.user_id
    IN  IF ok THEN Append(SelectSeq(table, Others), row) ELSE table

InsertRow(table, row, ok) == IF ok THEN Append(table, row) ELSE table

(* how many of the queries with outcomes oks failed *)
Failed(oks) == Cardinality({i \in 1..Len(oks) : ~oks[i]})

----------------------------------------------------------------------------
(* Streak tracker *)

StreakRow(user_id, current_streak, longest_streak, last_entry_date, total_entries) ==
    [user_id |-> user_id, current_streak |-> current_streak,
     longest_streak |-> longest_streak, last_entry_date |-> last_entry_date,
     total_entries |-> total_entries]

(* INSERT INTO user_streaks (user_id) VALUES (?): the column defaults *)
DefaultStreakRow(user_id) == StreakRow(user_id, 0, 0, NoDate, 0)

Max(a, b) == IF a >= b THEN a ELSE b

(* SELECT * FROM user_streaks WHERE user_id = ? *)
SelectStreaks(table, user_id, ok) ==
    LET Test(row) == row.user_id = user_id
    IN  SelectRows(SelectSeq(table, Test), ok)

(* get_user_streak: result[0] if result else None (None is << >>) *)
get_user_streak(table, user_id) ==
    LET result == SelectStreaks(table, user_id, TRUE)
    IN  IF result # << >> THEN <<result[1]>> ELSE << >>

(* Variants of StreakStatement, each with one plausible slip *)

(* longest_streak is not raised to the new current_streak *)
StreakStatement_KeepLongest(streak_result, user_id, entry_date) ==
    IF streak_result = << >>
    THEN [kind |-> "INSERT", row |-> StreakRow(user_id, 1, 1, entry_date, 1)]
    ELSE
      LET streak_data == streak_result[1]
          last_entry_date == streak_data.last_entry_date
          days_diff == entry_date - last_entry_date
          current_streak ==
              IF last_entry_date # NoDate
              THEN IF days_diff = 1 THEN streak_data.current_streak + 1 ELSE 1
              ELSE 1
      IN  IF last_entry_date # NoDate /\ days_diff = 0
          THEN [kind |-> "RETURN", row |-> streak_data]
          ELSE [kind |-> "UPDATE",
                row |-> StreakRow(user_id, current_streak,
                                  streak_data.longest_streak,
                                  entry_date, streak_data.total_entries + 1)]

(* a consecutive day restarts the streak instead of extending it *)
StreakStatement_NoIncrement(streak_result, user_id, entry_date) ==
    IF streak_result = << >>
    THEN [kind |-> "INSERT", row |-> StreakRow(user_id, 1, 1, entry_date, 1)]
    ELSE
      LET streak_data == streak_result[1]
          last_entry_date == streak_data.last_entry_date
          days_diff == entry_date - last_entry_date
      IN  IF last_entry_date # NoDate /\ days_diff = 0
          THEN [kind |-> "RETURN", row |-> streak_data]
          ELSE [kind |-> "UPDATE",
                row |-> StreakRow(user_id, 1,
                                  Max(streak_data.longest_streak, 1),
                                  entry_date, streak_data.total_entries + 1)]

(* a same-day entry is counted like a gap *)
StreakStatement_CountSameDay(streak_result, user_id, entry_date) ==
    IF streak_result = << >>
    THEN [kind |-> "INSERT", row |-> StreakRow(user_id, 1, 1, entry_date, 1)]
    ELSE
      LET streak_data == streak_result[1]
          last_entry_date == streak_data.last_entry_date
          days_diff == entry_date - last_entry_date
          current_streak ==
              IF last_entry_date # NoDate
              THEN IF days_diff = 1 THEN streak_data.current_streak + 1 ELSE 1
              ELSE 1
      IN  [kind |-> "UPDATE",
           row |-> StreakRow(user_id, current_streak,
                             Max(streak_data.longest_streak, current_streak),
                             entry_date, streak_data.total_entries + 1)]

(* a backdated entry is ignored instead of resetting the streak *)
StreakStatement_IgnoreBackdated(streak_result, user_id, entry_date) ==
    IF streak_result = << >>
    THEN [kind |-> "INSERT", row |-> StreakRow(user_id, 1, 1, entry_date, 1)]
    ELSE
      LET streak_data == streak_result[1]
          last_entry_date == streak_data.last_entry_date
          days_diff == entry_date - last_entry_date
          current_streak ==
              IF last_entry_date # NoDate
              THEN IF days_diff = 1 THEN streak_data.current_streak + 1 ELSE 1
              ELSE 1
      IN  IF last_entry_date # NoDate /\ days_diff <= 0
          THEN [kind |-> "RETURN", row |-> streak_data]
          ELSE [kind |-> "UPDATE",
                row |-> StreakRow(user_id, current_streak,
                                  Max(streak_data.longest_streak, current_streak),
                                  entry_date, streak_data.total_entries + 1)]

(* the lazily created row gets the column defaults *)
StreakStatement_LazyDefaults(streak_result, user_id, entry_date) ==
    IF streak_result = << >>
    THEN [kind |-> "INSERT", row |-> DefaultStreakRow(user_id)]
    ELSE
      LET streak_data == streak_result[1]
          last_entry_date == streak_data.last_entry_date
          days_diff == entry_date - last_entry_date
          current_streak ==
              IF last_entry_date # NoDate
              THEN IF days_diff = 1 THEN streak_data.current_streak + 1 ELSE 1
              ELSE 1
      IN  IF last_entry_date # NoDate /\ days_diff = 0
          THEN [kind |-> "RETURN", row |-> streak_data]
          ELSE [kind |-> "UPDATE",
                row |-> StreakRow(user_id, current_streak,
                                  Max(streak_data.longest_streak, current_streak),
                                  entry_date, streak_data.total_entries + 1)]

(* any later date extends the streak, a gap included *)
StreakStatement_GapExtends(streak_result, user_id, entry_date) ==
    IF streak_result = << >>
    THEN [kind |-> "INSERT", row |-> StreakRow(user_id, 1, 1, entry_date, 1)]
    ELSE
      LET streak_data == streak_result[1]
          last_entry_date == streak_data.last_entry_date
          days_diff == entry_date - last_entry_date
          current_streak ==
              IF last_entry_date # NoDate
              THEN IF days_diff >= 1 THEN streak_data.current_streak + 1 ELSE 1
              ELSE 1
      IN  IF last_entry_date # NoDate /\ days_diff = 0
          THEN [kind |-> "RETURN", row |-> streak_data]
          ELSE [kind |-> "UPDATE",
                row |-> StreakRow(user_id, current_streak,
                                  Max(streak_data.longest_streak, current_streak),
                                  entry_date, streak_data.total_entries + 1)]

(* longest_streak is set to the new current_streak *)
StreakStatement_LongestFollows(streak_result, user_id, entry_date) ==
    IF streak_result = << >>
    THEN [kind |-> "INSERT", row |-> StreakRow(user_id, 1, 1, entry_date, 1)]
    ELSE
      LET streak_data == streak_result[1]
          last_entry_date == streak_data.last_entry_date
          days_diff == entry_date - last_entry_date
          current_streak ==
              IF last_entry_date # NoDate
              THEN IF days_diff = 1 THEN streak_data.current_streak + 1 ELSE 1
              ELSE 1
      IN  IF last_entry_date # NoDate /\ days_diff = 0
          THEN [kind |-> "RETURN", row |-> streak_data]
          ELSE [kind |-> "UPDATE",
                row |-> StreakRow(user_id, current_streak, current_streak,
                                  entry_date, streak_data.total_entries + 1)]

(* a reset of the streak does not count the entry *)
StreakStatement_ResetKeepsTotal(streak_result, user_id, entry_date) ==
    IF streak_result = << >>
    THEN [kind |-> "INSERT", row |-> StreakRow(user_id, 1, 1, entry_date, 1)]
    ELSE
      LET streak_data == streak_result[1]
          last_entry_date == streak_data.last_entry_date
          days_diff == entry_date - last_entry_date
          current_streak ==
              IF last_entry_date # NoDate
              THEN IF days_diff = 1 THEN streak_data.current_streak + 1 ELSE 1
              ELSE 1
          total_entries ==
              IF last_entry_date # NoDate /\ days_diff # 1
              THEN streak_data.total_entries
              ELSE streak_data.total_entries + 1
      IN  IF last_entry_date # NoDate /\ days_diff = 0
          THEN [kind |-> "RETURN", row |-> streak_data]
          ELSE [kind |-> "UPDATE",
                row |-> StreakRow(user_id, current_streak,
                                  Max(streak_data.longest_streak, current_streak),
                                  entry_date, total_entries)]

(* The statement update_user_streak issues after reading streak_result. *)
StreakStatement(streak_result, user_id, entry_date) ==
    IF streak_result = << >>
    THEN [kind |-> "INSERT", row |-> StreakRow(user_id, 1, 1, entry_date, 1)]
    ELSE
      LET streak_data == streak_result[1]
          last_entry_date == streak_data.last_entry_date
          days_diff == entry_date - last_entry_date
          current_streak ==
              IF last_entry_date # NoDate
              THEN IF days_diff = 1 THEN streak_data.current_streak + 1 ELSE 1
              ELSE 1
          longest_streak == Max(streak_data.longest_streak, current_streak)
          total_entries == streak_data.total_entries + 1
      IN  IF last_entry_date # NoDate /\ days_diff = 0
          THEN [kind |-> "RETURN",
                row |-> streak_data]
          ELSE [kind |-> "UPDATE",
                row |-> StreakRow(user_id, current_streak, longest_streak,
                                  entry_date, total_entries)]

(* Variant: the UPDATE counts relative to the stored row,                  *)
(* SET total_entries = total_entries + 1                                   *)
UpdateStreaks_Relative(table, row, ok) ==
    IF ok
    THEN [i \in 1..Len(table) |->
            IF table[i].user_id = row.user_id
            THEN [row EXCEPT !.total_entries = table[i].total_entries + 1]
            ELSE table[i]]
    ELSE table

(* UPDATE user_streaks SET ... WHERE user_id = ?: every row of the user *)
UpdateStreaks(table, row, ok) ==
    IF ok
    THEN [i \in 1..Len(table) |->
            IF table[i].user_id = row.user_id THEN row ELSE table[i]]
    ELSE table

ExecStreakStatement(table, stmt, ok) ==
    CASE stmt.kind = "INSERT" -> InsertRow(table, stmt.row, ok)
      [] stmt.kind = "UPDATE" -> UpdateStreaks(table, stmt.row, ok)
      [] OTHER -> table

(* update_user_streak as one call: the SELECT, then the write *)
update_user_streak(table, user_id, entry_date, selectOk, writeOk) ==
    LET streak_result == SelectStreaks(table, user_id, selectOk)
        stmt == StreakStatement(streak_result, user_id, entry_date)
    IN  ExecStreakStatement(table, stmt, writeOk)

----------------------------------------------------------------------------
(* Entry store *)

(* Variant: the two flight counts bound to each other's column *)
EntryRow_FlightsSwapped(user_id, data, total_carbon) ==
    [user_id |-> user_id,
     date |-> Get(data, "date", Today),
     electricity_kwh |-> Get(data, "electricity_kwh", 0),
     natural_gas_therms |-> Get(data, "natural_gas_therms", 0),
     water_gallons |-> Get(data, "water_gallons", 0),
     car_miles |-> Get(data, "car_miles", 0),
     public_transit_miles |-> Get(data, "public_transit_miles", 0),
     flights_short_haul |-> Get(data, "flights_long_haul", 0),
     flights_long_haul |-> Get(data, "flights_short_haul", 0),
     meat_servings |-> Get(data, "meat_servings", 0),
     dairy_servings |-> Get(data, "dairy_servings", 0),
     veg_servings |-> Get(data, "veg_servings", 0),
     total_carbon |-> total_carbon]

EntryRow(user_id, data, total_carbon) ==
    [user_id |-> user_id,
     date |-> Get(data, "date", Today),
     electricity_kwh |-> Get(data, "electricity_kwh", 0),
     natural_gas_therms |-> Get(data, "natural_gas_therms", 0),
     water_gallons |-> Get(data, "water_gallons", 0),
     car_miles |-> Get(data, "car_miles", 0),
     public_transit_miles |-> Get(data, "public_transit_miles", 0),
     flights_short_haul |-> Get(data, "flights_short_haul", 0),
     flights_long_haul |-> Get(data, "flights_long_haul", 0),
     meat_servings |-> Get(data, "meat_servings", 0),
     dairy_servings |-> Get(data, "dairy_servings", 0),
     veg_servings |-> Get(data, "veg_servings", 0),
     total_carbon |-> total_carbon]

(* SELECT * FROM carbon_footprint WHERE user_id = ? (ORDER BY date DESC   *)
(* reorders the rows; the set of rows returned is what is modelled)        *)
get_user_footprint_history(table, user_id) ==
    LET Test(row) == row.user_id = user_id
    IN  SelectRows(SelectSeq(table, Test), TRUE)

----------------------------------------------------------------------------
(* Users *)

UserRow(username, email) == [username |-> username, email |-> email]

AdminUser == UserRow("admin", "admin@carbontracker.com")

UserIds == 1..Len(users)

(* SELECT id FROM users WHERE username = ?: the ids, in rowid order *)
SelectUserIds(table, username, ok) ==
    LET ids == {i \in 1..Len(table) : table[i].username = username}
    IN  IF ok /\ ids # {}
        THEN <<CHOOSE i \in ids : \A j \in ids : i <= j>>
        ELSE << >>

(* INSERT INTO users: username and email are UNIQUE, a violation is an    *)
(* error run_query swallows like any other                                 *)
InsertUser(table, row, ok) ==
    IF /\ ok
       /\ \A i \in 1..Len(table) :
             table[i].username # row.username /\ table[i].email # row.email
    THEN Append(table, row)
    ELSE table

----------------------------------------------------------------------------
(* State after init_database on a new database file *)

Sessions == {"tab1", "tab2"}

IdleSession == [pc |-> "idle"]

Init ==
    /\ users = <<AdminUser>>
    /\ user_streaks = <<DefaultStreakRow(1)>>
    /\ carbon_footprint = << >>
    /\ call = [op |-> "init_database"]
    /\ calls = [save_carbon_footprint |-> 0, faults |-> 0]
    /\ sessions = [s \in Sessions |-> IdleSession]

(* register_user; countOk, insertOk, idOk, streakOk: whether its four     *)
(* queries succeed                                                         *)
register_user(username, email, countOk, insertOk, idOk, streakOk) ==
    LET count == Cardinality({i \in 1..Len(users) :
                     users[i].username = username \/ users[i].email = email})
        exists == countOk /\ count > 0
        users1 == InsertUser(users, UserRow(username, email), insertOk)
        user_result == SelectUserIds(users1, username, idOk)
    IN  /\ calls' = [calls EXCEPT
                       !.faults = @ + Failed(<<countOk, insertOk, idOk, streakOk>>)]
        /\ UNCHANGED <<carbon_footprint, sessions>>
        /\ IF exists
           THEN /\ UNCHANGED <<users, user_streaks>>
                /\ call' = [op |-> "register_user", username |-> username,
                            email |-> email, ret |-> FALSE]
           ELSE /\ users' = users1
                /\ user_streaks' =
                     IF user_result # << >>
                     THEN InsertRow(user_streaks,
                                    DefaultStreakRow(user_result[1]), streakOk)
                     ELSE user_streaks
                /\ call' = [op |-> "register_user", username |-> username,
                            email |-> email, ret |-> TRUE]

(* save_carbon_footprint; insertOk: the INSERT of the entry succeeds;     *)
(* selectOk, writeOk: the SELECT and the write of update_user_streak do    *)
save_carbon_footprint(user_id, data, insertOk, selectOk, writeOk) ==
    LET total_carbon == calculate_total_carbon(data)
        entry_date == Get(data, "date", Today)
    IN  /\ calls' = [calls EXCEPT !.save_carbon_footprint = @ + 1,
                               !.faults = @ + Failed(<<insertOk, selectOk, writeOk>>)]
        /\ carbon_footprint' =
             InsertRow(carbon_footprint,
                       EntryRow(user_id, data, total_carbon), insertOk)
        /\ user_streaks' =
             update_user_streak(user_streaks, user_id, entry_date,
                                selectOk, writeOk)
        /\ call' = [op |-> "save_carbon_footprint", user_id |-> user_id,
                    data |-> data,
                    insertOk |-> insertOk, selectOk |-> selectOk,
                    writeOk |-> writeOk,
                    lastrowid |-> IF insertOk THEN Len(carbon_footprint') ELSE 0,
                    before |-> SelectStreaks(user_streaks, user_id, TRUE),
                    ret |-> TRUE]
        /\ UNCHANGED <<users, sessions>>

(* The same handler one query at a time, as a session's script thread     *)
(* runs it: every run_query is one statement on the shared connection,     *)
(* committed when it is a write.                                           *)

(* lines 342-367: the total, then the INSERT of the entry *)
save_insert(s, user_id, data, insertOk) ==
    LET total_carbon == calculate_total_carbon(data)
        table == InsertRow(carbon_footprint,
                           EntryRow(user_id, data, total_carbon), insertOk)
    IN  /\ sessions[s].pc = "idle"
        /\ carbon_footprint' = table
        /\ sessions' = [sessions EXCEPT ![s] =
                          [pc |-> "select", user_id |-> user_id, data |-> data,
                           insertOk |-> insertOk,
                           lastrowid |-> IF insertOk THEN Len(table) ELSE 0]]
        /\ calls' = [calls EXCEPT !.save_carbon_footprint = @ + 1,
                                   !.faults = @ + Failed(<<insertOk>>)]
        /\ UNCHANGED <<users, user_streaks, call>>

(* lines 228-263: the SELECT of update_user_streak and the statement it   *)
(* decides on                                                              *)
streak_select(s, selectOk) ==
    LET me == sessions[s]
        entry_date == Get(me.data, "date", Today)
        streak_result == SelectStreaks(user_streaks, me.user_id, selectOk)
    IN  /\ me.pc = "select"
        /\ sessions' = [sessions EXCEPT ![s] =
                          [pc |-> "write", user_id |-> me.user_id,
                           data |-> me.data, insertOk |-> me.insertOk,
                           lastrowid |-> me.lastrowid,
                           selectOk |-> selectOk,
                           before |-> SelectStreaks(user_streaks, me.user_id, TRUE),
                           stmt |-> StreakStatement(streak_result, me.user_id,
                                                    entry_date)]]
        /\ calls' = [calls EXCEPT !.faults = @ + Failed(<<selectOk>>)]
        /\ UNCHANGED <<users, user_streaks, carbon_footprint, call>>

(* lines 234, 255 or 272, then line 372: the write, if any, and the return *)
streak_write(s, writeOk) ==
    LET me == sessions[s]
    IN  /\ me.pc = "write"
        /\ user_streaks' = ExecStreakStatement(user_streaks, me.stmt, writeOk)
        /\ sessions' = [sessions EXCEPT ![s] = IdleSession]
        /\ call' = [op |-> "save_carbon_footprint", user_id |-> me.user_id,
                    data |-> me.data,
                    insertOk |-> me.insertOk, selectOk |-> me.selectOk,
                    writeOk |-> writeOk,
                    lastrowid |-> me.lastrowid,
                    before |-> me.before,
                    ret |-> TRUE]
        /\ calls' = [calls EXCEPT !.faults = @ + Failed(<<writeOk>>)]
        /\ UNCHANGED <<users, carbon_footprint>>

----------------------------------------------------------------------------
(* Inputs *)

(* the dict calculate_page builds: the date and all ten fields, every     *)
(* field holding q                                                         *)
FormData(date, q) ==
    [k \in RawFieldSet \cup {"date"} |-> IF k = "date" THEN date ELSE q]

(* the form with one field filled in and 0 in the others *)
OneField(date, field, q) ==
    [k \in RawFieldSet \cup {"date"} |->
        IF k = "date" THEN date ELSE IF k = field THEN q ELSE 0]

(* a dict holding only a date *)
DateOnly(date) == [k \in {"date"} |-> date]

EmptyData == [k \in {} |-> 0]

Credentials == {AdminUser, UserRow("alice", "alice@example.com")}

----------------------------------------------------------------------------
(* Spec: every query succeeds; entries on any dates of EntryDates, in any *)
(* order                                                                   *)

SaveInputs == {EmptyData} \cup {DateOnly(d) : d \in EntryDates}

Register ==
    \E c \in Credentials :
        register_user(c.username, c.email, TRUE, TRUE, TRUE, TRUE)

Save ==
    \E user_id \in UserIds, data \in SaveInputs :
        /\ calls.save_carbon_footprint < MaxSaves
        /\ save_carbon_footprint(user_id, data, TRUE, TRUE, TRUE)

Next == Register \/ Save

Spec == Init /\ [][Next]_vars

----------------------------------------------------------------------------
(* SpecEntries: every query succeeds; entries dated today whose           *)
(* quantities are 0, MaxQty or -MaxQty (save_carbon_footprint itself       *)
(* takes any number; only the form's widgets have min_value = 0)           *)

FormQuantities == {0 - MaxQty, MaxQty}

FormInputs ==
    {EmptyData, FormData(Today, 0)}
      \cup {FormData(Today, q) : q \in FormQuantities}
      \cup {OneField(Today, k, q) : k \in RawFieldSet, q \in FormQuantities}

SaveForm ==
    \E user_id \in UserIds, data \in FormInputs :
        /\ calls.save_carbon_footprint < MaxFormSaves
        /\ save_carbon_footprint(user_id, data, TRUE, TRUE, TRUE)

NextEntries == Register \/ SaveForm

SpecEntries == Init /\ [][NextEntries]_vars

----------------------------------------------------------------------------
(* SpecFaults: up to MaxFaults queries fail; entries dated yesterday or   *)
(* today                                                                   *)

RecentDates == (Today - 1)..Today

FaultInputs == {DateOnly(d) : d \in RecentDates}

RegisterFaulty ==
    \E c \in Credentials,
       countOk \in BOOLEAN, insertOk \in BOOLEAN,
       idOk \in BOOLEAN, streakOk \in BOOLEAN :
        /\ calls.faults + Failed(<<countOk, insertOk, idOk, streakOk>>) <= MaxFaults
        /\ register_user(c.username, c.email, countOk, insertOk, idOk, streakOk)

SaveFaulty ==
    \E user_id \in UserIds, data \in FaultInputs,
       insertOk \in BOOLEAN, selectOk \in BOOLEAN, writeOk \in BOOLEAN :
        /\ calls.save_carbon_footprint < MaxFaultSaves
        /\ calls.faults + Failed(<<insertOk, selectOk, writeOk>>) <= MaxFaults
        /\ save_carbon_footprint(user_id, data, insertOk, selectOk, writeOk)

NextFaults == RegisterFaulty \/ SaveFaulty

SpecFaults == Init /\ [][NextFaults]_vars

----------------------------------------------------------------------------
(* SpecSteps: after the registrations, two sessions run                   *)
(* save_carbon_footprint query by query; up to MaxFaults queries fail      *)

RegisterFirst == calls.save_carbon_footprint = 0 /\ RegisterFaulty

SaveInsert ==
    \E s \in Sessions, user_id \in UserIds, data \in FaultInputs,
       insertOk \in BOOLEAN :
        /\ calls.save_carbon_footprint < MaxStepSaves
        /\ calls.faults + Failed(<<insertOk>>) <= MaxFaults
        /\ save_insert(s, user_id, data, insertOk)

StreakSelect ==
    \E s \in Sessions, selectOk \in BOOLEAN :
        /\ calls.faults + Failed(<<selectOk>>) <= MaxFaults
        /\ streak_select(s, selectOk)

StreakWrite ==
    \E s \in Sessions, writeOk \in BOOLEAN :
        /\ calls.faults + Failed(<<writeOk>>) <= MaxFaults
        /\ streak_write(s, writeOk)

NextSteps == RegisterFirst \/ SaveInsert \/ StreakSelect \/ StreakWrite

SpecSteps == Init /\ [][NextSteps]_vars

----------------------------------------------------------------------------
(* SpecCalc: calculate_page computes the total of one dict; the dict      *)
(* holds any of the ten fields, each 0 or MaxQty                           *)

CalcInputs == UNION {[keys -> {0, MaxQty}] : keys \in SUBSET RawFieldSet}

InitCalc ==
    /\ users = <<AdminUser>>
    /\ user_streaks = <<DefaultStreakRow(1)>>
    /\ carbon_footprint = << >>
    /\ call \in {[op |-> "calculate_page", data |-> d] : d \in CalcInputs}
    /\ calls = [save_carbon_footprint |-> 0, faults |-> 0]
    /\ sessions = [s \in Sessions |-> IdleSession]

(* line 651: total_carbon = calculate_total_carbon(data) *)
Calculate ==
    /\ call.op = "calculate_page"
    /\ call' = [op |-> "calculate_total_carbon", data |-> call.data,
                ret |-> calculate_total_carbon(call.data)]
    /\ UNCHANGED <<users, user_streaks, carbon_footprint, calls, sessions>>

NextCalc == Calculate

SpecCalc == InitCalc /\ [][NextCalc]_vars

----------------------------------------------------------------------------
(* Statistics *)

(* the value Python's None has where a handler returns it *)
None == [none |-> TRUE]

(* df[column].sum() *)
RECURSIVE ColumnSum(_, _)
ColumnSum(rows, column) ==
    IF rows = << >> THEN 0
    ELSE Head(rows)[column] + ColumnSum(Tail(rows), column)

Min(a, b) == IF a <= b THEN a ELSE b

(* df[column].min() and .max() of a frame that is not empty *)
RECURSIVE ColumnMin(_, _)
ColumnMin(rows, column) ==
    IF Len(rows) = 1 THEN rows[1][column]
    ELSE Min(Head(rows)[column], ColumnMin(Tail(rows), column))

RECURSIVE ColumnMax(_, _)
ColumnMax(rows, column) ==
    IF Len(rows) = 1 THEN rows[1][column]
    ELSE Max(Head(rows)[column], ColumnMax(Tail(rows), column))

(* A mean is the exact fraction num/den, den > 0; the literal 0 an empty  *)
(* window gets is 0/1.                                                     *)
Fraction(num, den) == [num |-> num, den |-> den]

Zero == Fraction(0, 1)

(* df[column].mean() of a frame that is not empty *)
ColumnMean(rows, column) == Fraction(ColumnSum(rows, column), Len(rows))

Less(a, b) == a.num * b.den < b.num * a.den

SameValue(a, b) == a.num * b.den = b.num * a.den

(* timedelta(days=30) and timedelta(days=60) *)
RecentDays == 30
PreviousDays == 60

(* Variant of trend: an empty previous window compares as equal instead of as 0 *)
trend_EmptyIsStable(recent_avg, previous_avg) ==
    IF previous_avg = Zero THEN "stable"
    ELSE IF Less(recent_avg, previous_avg) THEN "improving"
    ELSE IF Less(previous_avg, recent_avg) THEN "worsening"
    ELSE "stable"

(* history_df[history_df['date'] >= str(last_30_days)] *)
recent_data(history_df, today) ==
    LET last_30_days == today - RecentDays
        InWindow(row) == row.date >= last_30_days
    IN  SelectSeq(history_df, InWindow)

(* history_df[(date >= str(prev_30_days)) & (date < str(last_30_days))] *)
previous_data(history_df, today) ==
    LET last_30_days == today - RecentDays
        prev_30_days == today - PreviousDays
        InWindow(row) == row.date >= prev_30_days /\ row.date < last_30_days
    IN  SelectSeq(history_df, InWindow)

(* X.mean() if not X.empty else 0 *)
MeanOrZero(rows) ==
    IF rows # << >> THEN ColumnMean(rows, "total_carbon") ELSE Zero

trend(recent_avg, previous_avg) ==
    IF Less(recent_avg, previous_avg) THEN "improving"
    ELSE IF Less(previous_avg, recent_avg) THEN "worsening"
    ELSE "stable"

(* Variants of category_totals, each with one plausible slip *)

(* the two flight factors exchanged *)
category_totals_FlightsSwapped(history_df) ==
    [electricity |-> ColumnSum(history_df, "electricity_kwh") * 40000,
     natural_gas |-> ColumnSum(history_df, "natural_gas_therms") * 530000,
     water       |-> ColumnSum(history_df, "water_gallons") * 20,
     car         |-> (ColumnSum(history_df, "car_miles") * 888700) \div 25,
     transit     |-> ColumnSum(history_df, "public_transit_miles") * 17000,
     flights     |-> ColumnSum(history_df, "flights_short_haul") * 160000000
                       + ColumnSum(history_df, "flights_long_haul") * 50000000,
     food        |-> ColumnSum(history_df, "meat_servings") * 300000
                       + ColumnSum(history_df, "dairy_servings") * 70000
                       + ColumnSum(history_df, "veg_servings") * 20000]

(* car miles taken as gallons: no division by the fuel efficiency *)
category_totals_CarPerMile(history_df) ==
    [electricity |-> ColumnSum(history_df, "electricity_kwh") * 40000,
     natural_gas |-> ColumnSum(history_df, "natural_gas_therms") * 530000,
     water       |-> ColumnSum(history_df, "water_gallons") * 20,
     car         |-> ColumnSum(history_df, "car_miles") * 888700,
     transit     |-> ColumnSum(history_df, "public_transit_miles") * 17000,
     flights     |-> ColumnSum(history_df, "flights_short_haul") * 50000000
                       + ColumnSum(history_df, "flights_long_haul") * 160000000,
     food        |-> ColumnSum(history_df, "meat_servings") * 300000
                       + ColumnSum(history_df, "dairy_servings") * 70000
                       + ColumnSum(history_df, "veg_servings") * 20000]

(* lines 452-460: the column sums times the factors written out there     *)
(* (0.4, 5.3, 0.0002, /25 * 8.887, 0.17, 500 and 1600, 3.0, 0.7 and 0.2),  *)
(* in units of 1/Scale kg                                                  *)
category_totals(history_df) ==
    [electricity |-> ColumnSum(history_df, "electricity_kwh") * 40000,
     natural_gas |-> ColumnSum(history_df, "natural_gas_therms") * 530000,
     water       |-> ColumnSum(history_df, "water_gallons") * 20,
     car         |-> (ColumnSum(history_df, "car_miles") * 888700) \div 25,
     transit     |-> ColumnSum(history_df, "public_transit_miles") * 17000,
     flights     |-> ColumnSum(history_df, "flights_short_haul") * 50000000
                       + ColumnSum(history_df, "flights_long_haul") * 160000000,
     food        |-> ColumnSum(history_df, "meat_servings") * 300000
                       + ColumnSum(history_df, "dairy_servings") * 70000
                       + ColumnSum(history_df, "veg_servings") * 20000]

(* get_dashboard_stats on the day `today`; the week and month columns it  *)
(* adds to its own frame are not part of what it returns                   *)
get_dashboard_stats(table, user_id, today) ==
    LET history_df == get_user_footprint_history(table, user_id)
        recent_avg == MeanOrZero(recent_data(history_df, today))
        previous_avg == MeanOrZero(previous_data(history_df, today))
    IN  IF history_df = << >> THEN None
        ELSE [total_entries |-> Len(history_df),
              total_carbon  |-> ColumnSum(history_df, "total_carbon"),
              avg_carbon    |-> ColumnMean(history_df, "total_carbon"),
              min_carbon    |-> ColumnMin(history_df, "total_carbon"),
              max_carbon    |-> ColumnMax(history_df, "total_carbon"),
              recent_avg    |-> recent_avg,
              previous_avg  |-> previous_avg,
              trend         |-> trend(recent_avg, previous_avg),
              category_breakdown |-> category_totals(history_df)]

(* dashboard_page, lines 724-725: the streak record and the statistics of *)
(* the user                                                                *)
dashboard_page(user_id) ==
    /\ call' = [op |-> "get_dashboard_stats", user_id |-> user_id,
                streak_info |-> get_user_streak(user_streaks, user_id),
                ret |-> get_dashboard_stats(carbon_footprint, user_id, Today)]
    /\ UNCHANGED <<users, user_streaks, carbon_footprint, calls, sessions>>

Dashboard == \E user_id \in UserIds : dashboard_page(user_id)

----------------------------------------------------------------------------
(* SpecStats: every query succeeds; entries dated around the two windows  *)
(* of the dashboard, and the dashboard of any user after any save          *)

StatsDates == {Today - PreviousDays - 1, Today - PreviousDays,
               Today - RecentDays - 1, Today - RecentDays,
               Today, Today + 1}

StatsInputs ==
    {OneField(d, "electricity_kwh", MaxQty) : d \in StatsDates}
      \cup {OneField(d, "natural_gas_therms", MaxQty) :
               d \in {Today - RecentDays - 1, Today}}

SaveStats ==
    \E user_id \in UserIds, data \in StatsInputs :
        /\ calls.save_carbon_footprint < MaxStatsSaves
        /\ save_carbon_footprint(user_id, data, TRUE, TRUE, TRUE)

NextStats == Register \/ SaveStats \/ Dashboard

SpecStats == Init /\ [][NextStats]_vars

----------------------------------------------------------------------------
(* SpecBreakdown: every query succeeds; entries dated today with one      *)
(* field or every field filled in, and the dashboard of any user after any *)
(* save                                                                    *)

BreakdownInputs ==
    {FormData(Today, MaxQty)}
      \cup {OneField(Today, k, MaxQty) : k \in RawFieldSet}

SaveBreakdown ==
    \E user_id \in UserIds, data \in BreakdownInputs :
        /\ calls.save_carbon_footprint < MaxFormSaves
        /\ save_carbon_footprint(user_id, data, TRUE, TRUE, TRUE)

NextBreakdown == Register \/ SaveBreakdown \/ Dashboard

SpecBreakdown == Init /\ [][NextBreakdown]_vars

----------------------------------------------------------------------------
(* The handlers that do not write entries.  The password column and the   *)
(* profile columns other than email are not part of a user row here;       *)
(* whether the password given matches is an input.  Which user a page      *)
(* acts for is st.session_state['user_id']: every action takes the user    *)
(* as an input, so login and logout change nothing the model holds.        *)

(* login_user: the row with this username and password, if any *)
login_user(username, matches, ok) ==
    LET found == SelectUserIds(users, username, ok /\ matches)
    IN  /\ call' = [op |-> "login_user", username |-> username,
                    ret |-> IF found # << >> THEN <<TRUE, found[1]>>
                            ELSE <<FALSE, None>>]
        /\ calls' = [calls EXCEPT !.faults = @ + Failed(<<ok>>)]
        /\ UNCHANGED <<users, user_streaks, carbon_footprint, sessions>>

logout ==
    /\ call' = [op |-> "logout"]
    /\ UNCHANGED <<users, user_streaks, carbon_footprint, calls, sessions>>

(* change_password: the COUNT query, then UPDATE users SET password *)
change_password(user_id, matches, countOk, updateOk) ==
    /\ call' = [op |-> "change_password", user_id |-> user_id,
                ret |-> countOk /\ matches]
    /\ calls' = [calls EXCEPT !.faults =
                   @ + IF countOk /\ matches THEN Failed(<<updateOk>>)
                       ELSE Failed(<<countOk>>)]
    /\ UNCHANGED <<users, user_streaks, carbon_footprint, sessions>>

(* update_user_profile: UPDATE users SET ..., email = ? WHERE id = ?;     *)
(* email is UNIQUE                                                         *)
update_user_profile(user_id, email, ok) ==
    LET unique == \A i \in 1..Len(users) :
                     i # user_id => users[i].email # email
    IN  /\ users' = IF ok /\ unique
                    THEN [users EXCEPT ![user_id].email = email]
                    ELSE users
        /\ call' = [op |-> "update_user_profile", user_id |-> user_id,
                    email |-> email, ret |-> TRUE]
        /\ calls' = [calls EXCEPT !.faults = @ + Failed(<<ok>>)]
        /\ UNCHANGED <<user_streaks, carbon_footprint, sessions>>

(* history_page, line 687: the entries of the user *)
history_page(user_id, ok) ==
    /\ call' = [op |-> "get_user_footprint_history", user_id |-> user_id,
                ret |-> SelectRows(
                          get_user_footprint_history(carbon_footprint, user_id),
                          ok)]
    /\ calls' = [calls EXCEPT !.faults = @ + Failed(<<ok>>)]
    /\ UNCHANGED <<users, user_streaks, carbon_footprint, sessions>>

----------------------------------------------------------------------------
(* SpecOps: every handler that reaches the database, in any order;        *)
(* registration succeeds, up to MaxFaults queries of the other handlers    *)
(* fail; entries dated yesterday or today                                  *)

SaveOps ==
    \E user_id \in UserIds, data \in FaultInputs,
       insertOk \in BOOLEAN, selectOk \in BOOLEAN, writeOk \in BOOLEAN :
        /\ calls.save_carbon_footprint < MaxOpSaves
        /\ calls.faults + Failed(<<insertOk, selectOk, writeOk>>) <= MaxFaults
        /\ save_carbon_footprint(user_id, data, insertOk, selectOk, writeOk)

Login ==
    \E c \in Credentials, matches \in BOOLEAN, ok \in BOOLEAN :
        /\ calls.faults + Failed(<<ok>>) <= MaxFaults
        /\ login_user(c.username, matches, ok)

Logout == logout

ChangePassword ==
    \E user_id \in UserIds, matches \in BOOLEAN,
       countOk \in BOOLEAN, updateOk \in BOOLEAN :
        /\ calls.faults + Failed(<<countOk, updateOk>>) <= MaxFaults
        /\ change_password(user_id, matches, countOk, updateOk)

UpdateProfile ==
    \E user_id \in UserIds, c \in Credentials, ok \in BOOLEAN :
        /\ calls.faults + Failed(<<ok>>) <= MaxFaults
        /\ update_user_profile(user_id, c.email, ok)

History ==
    \E user_id \in UserIds, ok \in BOOLEAN :
        /\ calls.faults + Failed(<<ok>>) <= MaxFaults
        /\ history_page(user_id, ok)

NextOps ==
    \/ Register
    \/ SaveOps
    \/ Login
    \/ Logout
    \/ ChangePassword
    \/ UpdateProfile
    \/ History
    \/ Dashboard

SpecOps == Init /\ [][NextOps]_vars

----------------------------------------------------------------------------
(* The streak record, claims C1 to C6 *)

IsSave == call.op = "save_carbon_footprint"

(* the save just made reached the store with every query succeeding *)
SaveSucceeded == IsSave /\ call.insertOk /\ call.selectOk /\ call.writeOk

SavedDate == Get(call.data, "date", Today)

(* the rows of the saving user now *)
RowsAfter == SelectStreaks(user_streaks, call.user_id, TRUE)

(* the save found a record that has a last_entry_date *)
HadLastDate == call.before # << >> /\ call.before[1].last_entry_date # NoDate

(* C1: every streak row, whether created by init_database or              *)
(* register_user, created lazily by update_user_streak or rewritten by it  *)
(* on any date, has longest_streak >= current_streak.                      *)
C1_LongestAtLeastCurrent ==
    \A i \in 1..Len(user_streaks) :
        user_streaks[i].longest_streak >= user_streaks[i].current_streak

(* a row that update_user_streak extended to a streak of two *)
C1_Witness ==
    \E i \in 1..Len(user_streaks) :
        /\ user_streaks[i].current_streak = 2
        /\ user_streaks[i].longest_streak = 2

(* C2: a save dated exactly one day after the record's last_entry_date    *)
(* leaves current_streak = old + 1, total_entries = old + 1 and            *)
(* last_entry_date = the new date.                                         *)
C2_ConsecutiveDayExtends ==
    (SaveSucceeded /\ HadLastDate
       /\ SavedDate = call.before[1].last_entry_date + 1)
    => /\ RowsAfter # << >>
       /\ RowsAfter[1].current_streak = call.before[1].current_streak + 1
       /\ RowsAfter[1].total_entries = call.before[1].total_entries + 1
       /\ RowsAfter[1].last_entry_date = SavedDate

(* a streak of two extended to three *)
C2_Witness ==
    /\ SaveSucceeded /\ HadLastDate
    /\ SavedDate = call.before[1].last_entry_date + 1
    /\ call.before[1].current_streak = 2
    /\ RowsAfter[1].current_streak = 3

(* C3: a save dated on the record's last_entry_date leaves the user's     *)
(* streak rows exactly as they were, and for every user and date a second  *)
(* update_user_streak with the same date changes nothing the first did     *)
(* not.                                                                    *)
C3_SameDayNoOp ==
    /\ (SaveSucceeded /\ HadLastDate
          /\ SavedDate = call.before[1].last_entry_date)
       => RowsAfter = call.before
    /\ \A user_id \in UserIds, d \in EntryDates :
          LET once == update_user_streak(user_streaks, user_id, d, TRUE, TRUE)
          IN  update_user_streak(once, user_id, d, TRUE, TRUE) = once

(* the duplicate of the spec: days 1, 2 and then 2 again *)
C3_Witness ==
    /\ SaveSucceeded /\ HadLastDate
    /\ SavedDate = call.before[1].last_entry_date
    /\ RowsAfter[1].current_streak = 2
    /\ RowsAfter[1].total_entries = 2
    /\ Len(get_user_footprint_history(carbon_footprint, call.user_id)) = 3

(* C4: a save whose date is neither the last_entry_date nor the day after *)
(* it (a gap, or an earlier date) sets current_streak to 1, keeps          *)
(* longest_streak, adds 1 to total_entries and sets last_entry_date to the *)
(* new date.                                                               *)
C4_GapOrBackdatedResets ==
    (SaveSucceeded /\ HadLastDate
       /\ SavedDate - call.before[1].last_entry_date \notin {0, 1})
    => /\ RowsAfter # << >>
       /\ RowsAfter[1].current_streak = 1
       /\ RowsAfter[1].longest_streak = call.before[1].longest_streak
       /\ RowsAfter[1].total_entries = call.before[1].total_entries + 1
       /\ RowsAfter[1].last_entry_date = SavedDate

(* a backdated entry after a streak of two *)
C4_Witness ==
    /\ SaveSucceeded /\ HadLastDate
    /\ SavedDate < call.before[1].last_entry_date
    /\ call.before[1].current_streak = 2
    /\ RowsAfter[1].current_streak = 1
    /\ RowsAfter[1].longest_streak = 2
    /\ RowsAfter[1].last_entry_date = SavedDate

(* C5: the first update_user_streak of a user, with no streak row or with *)
(* the row register_user created, leaves the row (1, 1, entry date, 1).    *)
C5_FirstEntry ==
    (SaveSucceeded
       /\ (call.before = << >> \/ call.before = <<DefaultStreakRow(call.user_id)>>))
    => RowsAfter = <<StreakRow(call.user_id, 1, 1, SavedDate, 1)>>

(* the row created lazily: registration's INSERT of the streak row failed *)
C5_Witness ==
    /\ SaveSucceeded
    /\ call.before = << >>
    /\ RowsAfter = <<StreakRow(call.user_id, 1, 1, SavedDate, 1)>>

(* the length of the run of consecutive days of S that ends on day d *)
RunEndingAt(S, d) ==
    Cardinality({k \in 0..MaxDay : \A j \in 0..k : (d - j) \in S})

LongestRun(S) ==
    CHOOSE n \in 0..(MaxDay + 1) :
        /\ \A d \in S : RunEndingAt(S, d) <= n
        /\ (S = {} /\ n = 0) \/ (\E d \in S : RunEndingAt(S, d) = n)

(* C6: for a user whose entries were saved in strictly increasing date    *)
(* order, current_streak is the run of consecutive days ending on the      *)
(* latest date, longest_streak the longest run among the saved dates and   *)
(* total_entries the number of saves.                                      *)
C6_StreakCountsConsecutiveDays ==
    \A user_id \in UserIds :
        LET history == get_user_footprint_history(carbon_footprint, user_id)
            n == Len(history)
            dates == {history[i].date : i \in 1..n}
            rows == SelectStreaks(user_streaks, user_id, TRUE)
        IN  (n >= 1 /\ \A i \in 1..(n - 1) : history[i].date < history[i + 1].date)
            => /\ rows # << >>
               /\ rows[1].current_streak = RunEndingAt(dates, history[n].date)
               /\ rows[1].longest_streak = LongestRun(dates)
               /\ rows[1].total_entries = n

(* the spec's example: days 1, 2, 5 give current 1, longest 2, total 3 *)
C6_Witness ==
    \E user_id \in UserIds :
        LET history == get_user_footprint_history(carbon_footprint, user_id)
            rows == SelectStreaks(user_streaks, user_id, TRUE)
        IN  /\ Len(history) = 3
            /\ history[1].date = 1 /\ history[2].date = 2 /\ history[3].date = 5
            /\ rows[1].current_streak = 1
            /\ rows[1].longest_streak = 2
            /\ rows[1].total_entries = 3

----------------------------------------------------------------------------
(* The entry store and the calculator, claims C7 to C10 *)

(* the raw fields of a stored entry, as the dict the calculator takes *)
RawFieldsOf(row) == [k \in RawFieldSet |-> row[k]]

(* C7: every entry get_user_footprint_history returns, for every user and *)
(* in every state, has total_carbon = calculate_total_carbon of the raw    *)
(* fields stored in the same row.                                          *)
C7_StoredTotalMatchesRawFields ==
    \A user_id \in UserIds :
        LET history == get_user_footprint_history(carbon_footprint, user_id)
        IN  \A i \in 1..Len(history) :
                history[i].total_carbon
                    = calculate_total_carbon(RawFieldsOf(history[i]))

(* an entry with one short-haul flight count and nothing else *)
C7_Witness ==
    \E user_id \in UserIds :
        LET history == get_user_footprint_history(carbon_footprint, user_id)
        IN  \E i \in 1..Len(history) :
                /\ history[i].flights_short_haul = MaxQty
                /\ history[i].flights_long_haul = 0
                /\ history[i].total_carbon = MaxQty * 500 * Scale

(* the sum of the claim, with its decimal factors written as fractions of *)
(* Scale                                                                   *)
CategorySum(data) ==
    LET q(k) == Get(data, k, 0)
    IN  (q("electricity_kwh") * 4 * Scale) \div 10
          + (q("natural_gas_therms") * 53 * Scale) \div 10
          + (q("water_gallons") * 2 * Scale) \div 10000
          + (q("car_miles") * 8887 * Scale) \div (25 * 1000)
          + (q("public_transit_miles") * 17 * Scale) \div 100
          + q("flights_short_haul") * 500 * Scale
          + q("flights_long_haul") * 1600 * Scale
          + q("meat_servings") * 3 * Scale
          + (q("dairy_servings") * 7 * Scale) \div 10
          + (q("veg_servings") * 2 * Scale) \div 10

(* C8: for non-negative inputs, absent fields counting as 0,              *)
(* calculate_total_carbon returns kWh*0.4 + therms*5.3 + gallons*0.0002 +  *)
(* (car_miles/25)*8.887 + transit_miles*0.17 + short*500 + long*1600 +     *)
(* meat*3.0 + dairy*0.7 + veg*0.2, and 0 when every input is 0 or absent.  *)
C8_TotalIsSumOfCategories ==
    call.op = "calculate_total_carbon"
    => /\ call.ret = CategorySum(call.data)
       /\ (\A k \in RawFieldSet : Get(call.data, k, 0) = 0) => call.ret = 0

(* the spec's example: one short and one long flight give 2100 kg *)
C8_Witness ==
    /\ call.op = "calculate_total_carbon"
    /\ DOMAIN call.data = {"flights_short_haul", "flights_long_haul"}
    /\ call.data["flights_short_haul"] = MaxQty
    /\ call.data["flights_long_haul"] = MaxQty
    /\ call.ret = MaxQty * 2100 * Scale

HasNegative(data) == \E k \in RawFieldSet : Get(data, k, 0) < 0

(* C9: a save whose raw fields hold a negative quantity is rejected: it   *)
(* stores no entry and leaves the streak rows alone, and no stored entry   *)
(* has a negative raw quantity or a negative total_carbon.                 *)
C9_NegativeInputRejected ==
    /\ (IsSave /\ HasNegative(call.data))
       => /\ call.ret = FALSE
          /\ call.lastrowid = 0
          /\ RowsAfter = call.before
    /\ \A i \in 1..Len(carbon_footprint) :
          /\ ~HasNegative(RawFieldsOf(carbon_footprint[i]))
          /\ carbon_footprint[i].total_carbon >= 0

(* the entry a session inserted is stored under the rowid it was given *)
EntryStored(user_id, data, lastrowid) ==
    /\ lastrowid \in 1..Len(carbon_footprint)
    /\ carbon_footprint[lastrowid]
         = EntryRow(user_id, data, calculate_total_carbon(data))

(* C10: once a save has read the streak rows, and so before it writes    *)
(* them, its entry row is written and committed; and the entry is still    *)
(* stored when the save returns, whether or not the streak update failed.  *)
C10_EntryCommittedBeforeStreak ==
    /\ \A s \in Sessions :
          sessions[s].pc = "write"
          => EntryStored(sessions[s].user_id, sessions[s].data,
                         sessions[s].lastrowid)
    /\ IsSave => EntryStored(call.user_id, call.data, call.lastrowid)

----------------------------------------------------------------------------
(* Persistence failures and the entry log, claims C11 and C12 *)

(* C11: a save whose INSERT into carbon_footprint fails returns False,    *)
(* stores no entry row and leaves the user's streak rows as they were.     *)
C11_EntryWriteFailureSurfaced ==
    (IsSave /\ ~call.insertOk)
    => /\ call.ret = FALSE
       /\ call.lastrowid = 0
       /\ RowsAfter = call.before

(* C12: no step of any handler (registration, login, logout, password     *)
(* change, profile update, save with its streak update, history listing,   *)
(* dashboard statistics) changes or removes an entry row that is stored:   *)
(* every row keeps its rowid and its contents.                             *)
C12_EntriesAppendOnly ==
    [][\A i \in 1..Len(carbon_footprint) :
          /\ i <= Len(carbon_footprint')
          /\ carbon_footprint'[i] = carbon_footprint[i]]_vars

(* a second entry of the same user for the same date, stored next to the  *)
(* first                                                                   *)
C12_Witness ==
    /\ IsSave
    /\ call.lastrowid = 2
    /\ carbon_footprint[1].user_id = call.user_id
    /\ carbon_footprint[1].date = SavedDate

----------------------------------------------------------------------------
(* The dashboard statistics, claims C13 to C15 and C19 *)

(* the dashboard of call.user_id has just been computed, and the user has *)
(* entries                                                                 *)
IsDashboard == call.op = "get_dashboard_stats" /\ call.ret # None

(* the mean of the stored totals of the user's entries dated from..to, 0  *)
(* when there are none                                                     *)
WindowMean(user_id, from, to) ==
    LET InWindow(row) == row.date >= from /\ row.date <= to
    IN  MeanOrZero(SelectSeq(get_user_footprint_history(carbon_footprint,
                                                        user_id),
                             InWindow))

(* C13: on the day asOf = today, recent_avg is the mean over exactly the  *)
(* entries dated in [asOf - 29, asOf] and previous_avg the mean over       *)
(* exactly those dated in [asOf - 59, asOf - 30]: two disjoint windows of  *)
(* 30 days, so an entry dated after asOf or on asOf - 30 is not recent.    *)
C13_WindowsAreThirtyDays ==
    IsDashboard
    => /\ SameValue(call.ret.recent_avg,
                    WindowMean(call.user_id, Today - 29, Today))
       /\ SameValue(call.ret.previous_avg,
                    WindowMean(call.user_id, Today - 59, Today - 30))

(* the entries of the dashboard's user *)
DashboardHistory == get_user_footprint_history(carbon_footprint, call.user_id)

(* C14: the dashboard's trend is 'improving' exactly when recent_avg is   *)
(* below previous_avg, 'worsening' exactly when it is above and 'stable'   *)
(* exactly when the two are equal; the mean of a window without entries is *)
(* 0; so with no previous entries and recent_avg > 0, previous_avg is 0    *)
(* and the trend is 'worsening'.                                           *)
C14_TrendFollowsMeans ==
    IsDashboard
    => LET stats == call.ret
           recent == recent_data(DashboardHistory, Today)
           previous == previous_data(DashboardHistory, Today)
       IN  /\ stats.trend = "improving"
                <=> Less(stats.recent_avg, stats.previous_avg)
           /\ stats.trend = "worsening"
                <=> Less(stats.previous_avg, stats.recent_avg)
           /\ stats.trend = "stable"
                <=> SameValue(stats.recent_avg, stats.previous_avg)
           /\ recent = << >> => stats.recent_avg.num = 0
           /\ recent # << >>
                => /\ stats.recent_avg.den = Len(recent)
                   /\ stats.recent_avg.num = ColumnSum(recent, "total_carbon")
           /\ previous = << >> => stats.previous_avg.num = 0
           /\ previous # << >>
                => /\ stats.previous_avg.den = Len(previous)
                   /\ stats.previous_avg.num
                        = ColumnSum(previous, "total_carbon")
           /\ (previous = << >> /\ stats.recent_avg.num > 0)
                => stats.trend = "worsening"

(* two recent entries, none in the previous window: 'worsening' against 0 *)
C14_Witness ==
    /\ IsDashboard
    /\ Len(recent_data(DashboardHistory, Today)) = 2
    /\ previous_data(DashboardHistory, Today) = << >>
    /\ call.ret.recent_avg.num > 0
    /\ call.ret.previous_avg = Zero
    /\ call.ret.trend = "worsening"

(* one entry in each window, the recent one the smaller: 'improving' *)
C14_Improving ==
    /\ IsDashboard
    /\ recent_data(DashboardHistory, Today) # << >>
    /\ previous_data(DashboardHistory, Today) # << >>
    /\ call.ret.trend = "improving"

Categories == {"electricity", "natural_gas", "water", "car", "transit",
               "flights", "food"}

(* what one entry contributes to each category, by the calculator         *)
(* functions of lines 281-311                                              *)
EntryCategories(row) ==
    [electricity |-> calculate_electricity_carbon(row.electricity_kwh),
     natural_gas |-> calculate_natural_gas_carbon(row.natural_gas_therms),
     water       |-> calculate_water_carbon(row.water_gallons),
     car         |-> calculate_car_carbon(row.car_miles),
     transit     |-> calculate_public_transit_carbon(row.public_transit_miles),
     flights     |-> calculate_flight_carbon(row.flights_short_haul,
                                             row.flights_long_haul),
     food        |-> calculate_food_carbon(row.meat_servings,
                                           row.dairy_servings,
                                           row.veg_servings)]

RECURSIVE ContributionSum(_, _)
ContributionSum(rows, category) ==
    IF rows = << >> THEN 0
    ELSE EntryCategories(Head(rows))[category]
           + ContributionSum(Tail(rows), category)

(* C15: every value of the dashboard's category_breakdown is the sum,     *)
(* over the user's stored entries, of what the category's calculator       *)
(* function gives for that entry's raw fields.                             *)
C15_BreakdownIsAdditive ==
    IsDashboard
    => /\ DOMAIN call.ret.category_breakdown = Categories
       /\ \A c \in Categories :
             call.ret.category_breakdown[c]
               = ContributionSum(DashboardHistory, c)

(* a full form and a car-only entry of one user: two car contributions,   *)
(* one flight contribution                                                 *)
C15_Witness ==
    /\ IsDashboard
    /\ Len(DashboardHistory) = 2
    /\ call.ret.category_breakdown.car = 2 * calculate_car_carbon(MaxQty)
    /\ call.ret.category_breakdown.flights
         = calculate_flight_carbon(MaxQty, MaxQty)

(* the sum of the seven values of a category breakdown *)
BreakdownSum(breakdown) ==
    breakdown.electricity + breakdown.natural_gas + breakdown.water
      + breakdown.car + breakdown.transit + breakdown.flights + breakdown.food

(* C19: for a user whose stored entries all have non-negative raw fields, *)
(* the seven values of the dashboard's category_breakdown add up to its    *)
(* total_carbon, the sum of the totals stored with the entries.            *)
C19_BreakdownSumsToTotal ==
    (/\ IsDashboard
     /\ \A i \in 1..Len(DashboardHistory) :
           ~HasNegative(RawFieldsOf(DashboardHistory[i])))
    => BreakdownSum(call.ret.category_breakdown) = call.ret.total_carbon

(* a full form and a transit-only entry of one user *)
C19_Witness ==
    /\ IsDashboard
    /\ call.ret.total_entries = 2
    /\ call.ret.category_breakdown.transit
         = 2 * calculate_public_transit_carbon(MaxQty)
    /\ call.ret.category_breakdown.food
         = calculate_food_carbon(MaxQty, MaxQty, MaxQty)
    /\ call.ret.total_carbon
         = calculate_total_carbon(FormData(Today, MaxQty))
             + calculate_public_transit_carbon(MaxQty)

----------------------------------------------------------------------------
(* The streak record over many saves, claims C16 to C18 and C20 *)

(* C16: in every reachable state, a save of one session half done while   *)
(* another runs included, user_streaks holds at most one row per user.     *)
C16_OneStreakRowPerUser ==
    \A user_id \in UserIds :
        Len(SelectStreaks(user_streaks, user_id, TRUE)) <= 1

(* C17: over any sequence of saves, each with its update_user_streak      *)
(* call, the longest_streak of a user's record (the row get_user_streak    *)
(* returns) never decreases and is the largest value its current_streak    *)
(* has taken so far: a record starts with longest_streak = current_streak, *)
(* and every step leaves longest_streak at the larger of its old value and *)
(* the new current_streak.                                                 *)
C17_LongestIsRunningMax ==
    /\ \A user_id \in UserIds :
          LET record == get_user_streak(user_streaks, user_id)
          IN  record # << >>
              => record[1].longest_streak = record[1].current_streak
    /\ [][\A user_id \in 1..Len(users') :
            LET old == get_user_streak(user_streaks, user_id)
                new == get_user_streak(user_streaks', user_id)
            IN  /\ old # << >> => new # << >>
                /\ new # << >>
                   => IF old # << >>
                      THEN /\ new[1].longest_streak >= old[1].longest_streak
                           /\ new[1].longest_streak
                                = Max(old[1].longest_streak,
                                      new[1].current_streak)
                      ELSE new[1].longest_streak = new[1].current_streak]_vars

(* a streak of two, then an entry after a gap: current_streak falls to 1, *)
(* longest_streak stays 2                                                  *)
C17_Witness ==
    /\ SaveSucceeded /\ HadLastDate
    /\ SavedDate > call.before[1].last_entry_date + 1
    /\ call.before[1].current_streak = 2
    /\ call.before[1].longest_streak = 2
    /\ RowsAfter[1].current_streak = 1
    /\ RowsAfter[1].longest_streak = 2

(* the rows of the user after one update_user_streak call, run alone with *)
(* both its queries succeeding, on the rows `before`                       *)
SingleCall(before, user_id, entry_date) ==
    SelectStreaks(update_user_streak(before, user_id, entry_date, TRUE, TRUE),
                  user_id, TRUE)

(* session s is about to write its streak statement, every query of its   *)
(* save succeeded so far, and the save completed last was for the same     *)
(* user and date, succeeded, found a record and left it as one call does;  *)
(* s read the record either before that save wrote it or after             *)
SecondOfTwo(s) ==
    LET me == sessions[s]
    IN  /\ me.pc = "write"
        /\ me.insertOk /\ me.selectOk
        /\ SaveSucceeded
        /\ call.user_id = me.user_id
        /\ SavedDate = Get(me.data, "date", Today)
        /\ call.before # << >>
        /\ RowsAfter = SingleCall(call.before, call.user_id, SavedDate)
        /\ me.before = call.before \/ me.before = RowsAfter

(* C18: two saves of one user for one date that overlap, each reading the *)
(* existing streak record and then writing it, in any interleaving: when   *)
(* the second has written, the record is what a single update_user_streak  *)
(* call for that date leaves of the record the first one read, with        *)
(* current_streak and total_entries advanced once.                         *)
C18_SameDateRaceAdvancesOnce ==
    [][\A s \in Sessions :
          (SecondOfTwo(s) /\ sessions'[s].pc = "idle" /\ call'.writeOk)
          => SelectStreaks(user_streaks', call.user_id, TRUE)
               = SingleCall(call.before, call.user_id, SavedDate)]_vars

(* both sessions read the record before either wrote it; both have        *)
(* written, and total_entries is one more than what they read              *)
C18_Witness ==
    /\ SaveSucceeded
    /\ \A s \in Sessions : sessions[s].pc = "idle"
    /\ calls.faults = 0
    /\ call.before # << >>
    /\ call.before[1].last_entry_date # SavedDate
    /\ LET SameDate(row) == row.date = SavedDate
       IN  Len(SelectSeq(get_user_footprint_history(carbon_footprint,
                                                    call.user_id),
                         SameDate)) = 2
    /\ calls.save_carbon_footprint = 2
    /\ RowsAfter[1].total_entries = call.before[1].total_entries + 1
    /\ RowsAfter[1].current_streak = 1

(* how many entries of a history (in the order they were saved) have the  *)
(* date of the entry saved just before them                                *)
SameDateSaves(history) ==
    Cardinality({k \in 2..Len(history) :
                   history[k].date = history[k - 1].date})

(* C20: when no query fails, after any sequence of saves a user's         *)
(* total_entries is at most the number of the user's stored entries (the   *)
(* total_entries of get_dashboard_stats), and the two are equal exactly    *)
(* when no save was made for the date that was the record's                *)
(* last_entry_date at the time: such a save is the one whose date is the   *)
(* date of the user's entry saved before it, and each of them leaves       *)
(* total_entries one further behind.                                       *)
C20_TotalEntriesVsStoredEntries ==
    /\ \A user_id \in UserIds :
          LET history == get_user_footprint_history(carbon_footprint, user_id)
              record == get_user_streak(user_streaks, user_id)
              stats == get_dashboard_stats(carbon_footprint, user_id, Today)
              stored == IF stats = None THEN 0 ELSE stats.total_entries
          IN  /\ record # << >>
              /\ stored = Len(history)
              /\ record[1].total_entries <= stored
              /\ record[1].total_entries = stored
                   <=> SameDateSaves(history) = 0
              /\ record[1].total_entries = stored - SameDateSaves(history)
    /\ IsSave
       => LET history == get_user_footprint_history(carbon_footprint,
                                                    call.user_id)
              n == Len(history)
          IN  (HadLastDate /\ SavedDate = call.before[1].last_entry_date)
                <=> (n >= 2 /\ history[n - 1].date = SavedDate)

(* three entries, the second for the date of the first: total_entries 2 *)
C20_Witness ==
    /\ IsSave
    /\ LET history == get_user_footprint_history(carbon_footprint,
                                                 call.user_id)
       IN  /\ Len(history) = 3
           /\ history[2].date = history[1].date
           /\ history[3].date # history[2].date
    /\ RowsAfter[1].total_entries = 2

====
